---- MODULE Spec2Model ----
(***************************************************************************)
(* UserService (users-api/src/users/user.service.ts): an in-memory user    *)
(* registry whose writes are gated by email / password / CPF validation    *)
(* and by uniqueness of email and CPF.                                     *)
(*                                                                         *)
(* A JavaScript string is a sequence of one-character strings, so that the *)
(* regular expressions and the CPF arithmetic are computed on characters.  *)
(* The value undefined is the one-element sequence Undefined, which is no  *)
(* character string.                                                       *)
(***************************************************************************)
EXTENDS Integers, Sequences, FiniteSets, TLC

VARIABLES
    users,      \* this.users: sequence of User records, in array order
    now,        \* last value read from Date.now()
    op,         \* the call that has just completed; "idle" once its result is consumed
    args,       \* the arguments of that call
    result,     \* "ok", or the message of the Error that call threw; "true" or
                \* "false" when the call is a validator on its own
    ret         \* ids of the User objects that call returned, in order

vars == <<users, now, op, args, result, ret>>

-----------------------------------------------------------------------------
(* Bounds of the model *)

MaxNow == 1

-----------------------------------------------------------------------------
(* Characters and conversions *)

Digits == {"0", "1", "2", "3", "4", "5", "6", "7", "8", "9"}
Lower == {"a", "b", "c", "d", "e", "f", "g", "h", "i", "j", "k", "l", "m",
          "n", "o", "p", "q", "r", "s", "t", "u", "v", "w", "x", "y", "z"}
Upper == {"A", "B", "C", "D", "E", "F", "G", "H", "I", "J", "K", "L", "M",
          "N", "O", "P", "Q", "R", "S", "T", "U", "V", "W", "X", "Y", "Z"}
PasswordSymbols == {"@", "$", "!", "%", "*", "?", "&"}
Whitespace == {" ", "\t", "\n", "\r"}

Undefined == <<"undefined">>

\* JavaScript truthiness of a string | undefined value
Truthy(s) == s # Undefined /\ s # <<>>

DigitValue(c) ==
    CASE c = "0" -> 0 [] c = "1" -> 1 [] c = "2" -> 2 [] c = "3" -> 3
      [] c = "4" -> 4 [] c = "5" -> 5 [] c = "6" -> 6 [] c = "7" -> 7
      [] c = "8" -> 8 [] c = "9" -> 9

DigitChar(d) ==
    CASE d = 0 -> "0" [] d = 1 -> "1" [] d = 2 -> "2" [] d = 3 -> "3"
      [] d = 4 -> "4" [] d = 5 -> "5" [] d = 6 -> "6" [] d = 7 -> "7"
      [] d = 8 -> "8" [] d = 9 -> "9"

\* Number.prototype.toString() / template-literal conversion of a natural number
RECURSIVE NatToString(_)
NatToString(n) ==
    IF n < 10 THEN <<DigitChar(n)>>
    ELSE NatToString(n \div 10) \o <<DigitChar(n % 10)>>

-----------------------------------------------------------------------------
(* Input values *)

Email1 == <<"a", "@", "b", ".", "c">>
Email2 == <<"x", "@", "y", ".", "z">>
Email3 == <<"m", ".", "n", "@", "o", ".", "p", ".", "q">>
EmailNoAt == <<"a", "b", ".", "c">>
EmailNoDot == <<"a", "@", "b", "c">>
Emails == {Email1, Email2, Email3, EmailNoAt}

Password1 == <<"A", "b", "c", "d", "e", "f", "1", "!">>
Password2 == <<"x", "Y", "9", "$", "x", "Y", "9", "$", "k">>
PasswordShort == <<"A", "b", "c", "d", "e", "1", "!">>
Passwords == {Password1, Password2, PasswordShort}

SuperPassword1 == <<"S", "u", "p", "e", "r", "9", "?", "&">>
SuperPasswordNoSymbol == <<"S", "u", "p", "e", "r", "9", "9", "9">>
SuperPasswords == {Undefined, <<>>, SuperPassword1, SuperPasswordNoSymbol}

Cpf1 == <<"1", "1", "1", ".", "4", "4", "4", ".", "7", "7", "7", "-", "3", "5">>
Cpf2 == <<"1", "2", "3", ".", "4", "5", "6", ".", "7", "8", "9", "-", "0", "9">>
Cpf3 == <<"5", "2", "9", ".", "9", "8", "2", ".", "2", "4", "7", "-", "2", "5">>
CpfBadChecksum == <<"1", "1", "1", ".", "4", "4", "4", ".", "7", "7", "7", "-", "3", "6">>
CpfNoPunctuation == <<"1", "1", "1", "4", "4", "4", "7", "7", "7", "3", "5">>
CpfAllSame == <<"1", "1", "1", ".", "1", "1", "1", ".", "1", "1", "1", "-", "1", "1">>
Cpfs == {Cpf1, Cpf2, Cpf3, CpfBadChecksum, CpfNoPunctuation, CpfAllSame}


\* name, userType and password of a request are drawn together
ProfileAna == [name |-> "Ana", userType |-> "customer", password |-> Password1]
ProfileBia == [name |-> "Bia", userType |-> "admin", password |-> Password2]
ProfileCaio == [name |-> "Caio", userType |-> "manager", password |-> PasswordShort]

\* Inputs of Spec: every way a request can be invalid, one valid profile
Profiles == {ProfileAna, ProfileCaio}

\* Inputs of SpecFrame: requests that pass the validators, two profiles
FrameProfiles == {ProfileAna, ProfileBia}
FrameEmails == {Email1, Email2, Email3}
FrameCpfs == {Cpf1, Cpf2, Cpf3}
FrameSuperPasswords == {Undefined, <<>>, SuperPassword1}

\* keys the surrounding layer gives to records; NoId is never given to a record
Ids == {"u1", "u2"}
NoId == "u0"

\* Inputs of SpecValidator: the validators on many passwords and tax-ids
PasswordNoLower == <<"A", "B", "C", "D", "E", "F", "1", "!">>
PasswordNoUpper == <<"a", "b", "c", "d", "e", "f", "1", "!">>
PasswordNoDigit == <<"A", "b", "c", "d", "e", "f", "g", "!">>
PasswordNoSymbol == <<"A", "b", "c", "d", "e", "f", "g", "1">>
PasswordOtherSymbol == <<"A", "b", "c", "d", "e", "f", "1", "#">>
PasswordHash == <<"A", "b", "c", "d", "e", "f", "1", "!", "#">>
PasswordSpace == <<"A", "b", "c", "d", " ", "e", "f", "1", "!">>
PasswordEverySymbol == <<"z", "Z", "0", "@", "$", "!", "%", "*", "?", "&">>
PasswordInputs ==
    {Password1, PasswordEverySymbol, PasswordShort, PasswordNoLower, PasswordNoUpper,
     PasswordNoDigit, PasswordNoSymbol, PasswordOtherSymbol, PasswordHash, PasswordSpace,
     <<>>}

ValidatorProfiles ==
    { [name |-> "Ana", userType |-> "customer", password |-> pw] : pw \in PasswordInputs }
ValidatorEmails == {Email1, Email2, EmailNoDot}
ValidatorSuperPasswords == {Undefined, SuperPasswordNoSymbol}

\* eleven digits written DDD.DDD.DDD-DD
FormatCpf(d) ==
    <<d[1], d[2], d[3], ".", d[4], d[5], d[6], ".", d[7], d[8], d[9], "-", d[10], d[11]>>

\* the ten tax-ids 000.000.000-00 ... 999.999.999-99
CpfsAllSame == { FormatCpf([i \in 1..11 |-> d]) : d \in Digits }

\* three nine-digit bases with each of the hundred endings; the first check digit
\* of the second base and the second check digit of the third are remainders 10
CpfBases ==
    { <<"1", "1", "1", "4", "4", "4", "7", "7", "7">>,
      <<"1", "2", "3", "4", "5", "6", "7", "8", "9">>,
      <<"9", "8", "7", "6", "5", "4", "3", "2", "1">> }
CpfsEveryEnding == { FormatCpf(b \o <<x, y>>) : b \in CpfBases, x \in Digits, y \in Digits }

CpfTenDigits == <<"1", "1", "1", ".", "4", "4", "4", ".", "7", "7", "7", "-", "3">>
CpfTwelveDigits ==
    <<"1", "1", "1", ".", "4", "4", "4", ".", "7", "7", "7", "-", "3", "5", "5">>
CpfWithLetters ==
    <<"a", "1", "1", "1", "4", "4", "4", " ", "7", "7", "7", "/", "3", "5", "b">>
CpfAllSameNoPunctuation == [i \in 1..11 |-> "7"]

CpfInputs ==
    CpfsEveryEnding \cup CpfsAllSame \cup Cpfs
        \cup {CpfTenDigits, CpfTwelveDigits, CpfWithLetters, CpfAllSameNoPunctuation, <<>>}

\* the tax-ids of the createUser calls of SpecValidator
ValidatorCpfs == CpfsAllSame \cup {Cpf1, Cpf2, CpfBadChecksum}

\* every string the validators are applied to
Strings ==
    Emails \cup Passwords \cup (SuperPasswords \ {Undefined}) \cup Cpfs
        \cup ValidatorEmails \cup PasswordInputs \cup CpfInputs

NoArgs == [id |-> NoId, name |-> "", email |-> <<>>, password |-> <<>>, cpf |-> <<>>,
           userType |-> "", superPassword |-> Undefined]

-----------------------------------------------------------------------------
(* Validator *)

\* /^[^\s@]+@[^\s@]+\.[^\s@]+$/ .test(s)
emailRegex(s) ==
    \E k \in 1..Len(s), j \in 1..Len(s) :
        /\ 1 < k /\ k + 1 < j /\ j < Len(s)
        /\ s[k] = "@"
        /\ s[j] = "."
        /\ \A i \in (1..Len(s)) \ {k} : s[i] \notin (Whitespace \cup {"@"})

\* Mutant: .{8,} in place of the character class, any character is let through
passwordRegex_AnyCharacter(s) ==
    /\ \E i \in 1..Len(s) : s[i] \in Lower
    /\ \E i \in 1..Len(s) : s[i] \in Upper
    /\ \E i \in 1..Len(s) : s[i] \in Digits
    /\ \E i \in 1..Len(s) : s[i] \in PasswordSymbols
    /\ \A i \in 1..Len(s) : s[i] # "\n"
    /\ Len(s) >= 8

\* /^(?=.*[a-z])(?=.*[A-Z])(?=.*\d)(?=.*[@$!%*?&])[A-Za-z\d@$!%*?&]{8,}$/ .test(s)
passwordRegex(s) ==
    /\ \E i \in 1..Len(s) : s[i] \in Lower
    /\ \E i \in 1..Len(s) : s[i] \in Upper
    /\ \E i \in 1..Len(s) : s[i] \in Digits
    /\ \E i \in 1..Len(s) : s[i] \in PasswordSymbols
    /\ \A i \in 1..Len(s) : s[i] \in (Upper \cup Lower \cup Digits \cup PasswordSymbols)
    /\ Len(s) >= 8

\* /^\d{3}\.\d{3}\.\d{3}\-\d{2}$/ .test(s)
cpfRegex(s) ==
    /\ Len(s) = 14
    /\ \A i \in {1, 2, 3, 5, 6, 7, 9, 10, 11, 13, 14} : s[i] \in Digits
    /\ s[4] = "."
    /\ s[8] = "."
    /\ s[12] = "-"

IsDigitChar(c) == c \in Digits

\* cpf.replace(/[^\d]+/g, '')
StripNonDigits(cpf) == SelectSeq(cpf, IsDigitChar)

invalidCpfs == { [i \in 1..11 |-> d] : d \in Digits }

RECURSIVE CpfWeightedSum(_, _, _)
CpfWeightedSum(base, length, i) ==
    IF i > length THEN 0
    ELSE DigitValue(base[i]) * (length + 2 - i) + CpfWeightedSum(base, length, i + 1)

\* Mutant: the weights run from length + 1 down to 2, one less than they should
RECURSIVE CpfWeightedSum_OffByOne(_, _, _)
CpfWeightedSum_OffByOne(base, length, i) ==
    IF i > length THEN 0
    ELSE DigitValue(base[i]) * (length + 1 - i) + CpfWeightedSum_OffByOne(base, length, i + 1)

calculateCpfDigit_WeightOffByOne(base, length) ==
    LET sum == CpfWeightedSum_OffByOne(base, length, 1)
        remainder == (sum * 10) % 11
    IN  IF remainder = 10 \/ remainder = 11 THEN 0 ELSE remainder

\* Mutant: a remainder of 10 is not turned into 0
calculateCpfDigit_NoCoercion(base, length) ==
    LET sum == CpfWeightedSum(base, length, 1)
    IN  (sum * 10) % 11

calculateCpfDigit(base, length) ==
    LET sum == CpfWeightedSum(base, length, 1)
        remainder == (sum * 10) % 11
    IN  IF remainder = 10 \/ remainder = 11 THEN 0 ELSE remainder

\* Mutant: the list of invalid CPFs is not consulted
cpfDigitsCheck_NoInvalidList(cpf) ==
    LET cpfWithoutDots == StripNonDigits(cpf)
    IN  IF Len(cpfWithoutDots) # 11 THEN FALSE
        ELSE /\ calculateCpfDigit(cpfWithoutDots, 9) = DigitValue(cpfWithoutDots[10])
             /\ calculateCpfDigit(cpfWithoutDots, 10) = DigitValue(cpfWithoutDots[11])

cpfDigitsCheck(cpf) ==
    LET cpfWithoutDots == StripNonDigits(cpf)
    IN  IF Len(cpfWithoutDots) # 11 THEN FALSE
        ELSE IF cpfWithoutDots \in invalidCpfs THEN FALSE
        ELSE /\ calculateCpfDigit(cpfWithoutDots, 9) = DigitValue(cpfWithoutDots[10])
             /\ calculateCpfDigit(cpfWithoutDots, 10) = DigitValue(cpfWithoutDots[11])

\* The validators' results on the input strings, computed once
EmailRegexTest == [s \in Strings |-> emailRegex(s)]
PasswordRegexTest == [s \in Strings |-> passwordRegex(s)]
CpfRegexTest == [s \in Strings |-> cpfRegex(s)]
CpfDigitsTest == [s \in Strings |-> cpfDigitsCheck(s)]

isValidEmail(email) == EmailRegexTest[email]

isValidPassword(password) == PasswordRegexTest[password]

isValidCpfFormat(cpf) == CpfRegexTest[cpf]

isValidCpfDigits(cpf) == CpfDigitsTest[cpf]

-----------------------------------------------------------------------------
(* Registry *)

\* Mutant: only the first record is compared
isEmailInUse_FirstOnly(us, email) == Len(us) > 0 /\ us[1].email = email

isEmailInUse(us, email) == \E i \in 1..Len(us) : us[i].email = email

\* Mutant: the cpf is compared with the records' email
isCpfInUse_WrongField(us, cpf) == \E i \in 1..Len(us) : us[i].email = cpf

isCpfInUse(us, cpf) == \E i \in 1..Len(us) : us[i].cpf = cpf

\* Mutant: the CPF is validated before the two in-use checks
validateUserData_CpfFirst(us, email, password, superPassword, cpf) ==
    IF ~isValidEmail(email) THEN "Invalid email"
    ELSE IF ~isValidPassword(password) THEN "Invalid password"
    ELSE IF Truthy(superPassword) /\ ~isValidPassword(superPassword)
         THEN "Invalid super password"
    ELSE IF ~isValidCpfFormat(cpf) \/ ~isValidCpfDigits(cpf) THEN "Invalid CPF"
    ELSE IF isEmailInUse(us, email) THEN "Email already in use"
    ELSE IF isCpfInUse(us, cpf) THEN "CPF already in use"
    ELSE "ok"

\* Mutant: && in place of || in the CPF check
validateUserData_CpfAnd(us, email, password, superPassword, cpf) ==
    IF ~isValidEmail(email) THEN "Invalid email"
    ELSE IF ~isValidPassword(password) THEN "Invalid password"
    ELSE IF Truthy(superPassword) /\ ~isValidPassword(superPassword)
         THEN "Invalid super password"
    ELSE IF isEmailInUse(us, email) THEN "Email already in use"
    ELSE IF isCpfInUse(us, cpf) THEN "CPF already in use"
    ELSE IF ~isValidCpfFormat(cpf) /\ ~isValidCpfDigits(cpf) THEN "Invalid CPF"
    ELSE "ok"

\* Mutant: the email-in-use check is missing
validateUserData_NoEmailInUse(us, email, password, superPassword, cpf) ==
    IF ~isValidEmail(email) THEN "Invalid email"
    ELSE IF ~isValidPassword(password) THEN "Invalid password"
    ELSE IF Truthy(superPassword) /\ ~isValidPassword(superPassword)
         THEN "Invalid super password"
    ELSE IF isCpfInUse(us, cpf) THEN "CPF already in use"
    ELSE IF ~isValidCpfFormat(cpf) \/ ~isValidCpfDigits(cpf) THEN "Invalid CPF"
    ELSE "ok"

\* The message of the Error validateUserData throws, "ok" when it returns
validateUserData(us, email, password, superPassword, cpf) ==
    IF ~isValidEmail(email) THEN "Invalid email"
    ELSE IF ~isValidPassword(password) THEN "Invalid password"
    ELSE IF Truthy(superPassword) /\ ~isValidPassword(superPassword)
         THEN "Invalid super password"
    ELSE IF isEmailInUse(us, email) THEN "Email already in use"
    ELSE IF isCpfInUse(us, cpf) THEN "CPF already in use"
    ELSE IF ~isValidCpfFormat(cpf) \/ ~isValidCpfDigits(cpf) THEN "Invalid CPF"
    ELSE "ok"

\* new User(name, email, password, cpf, userType, userCode, number, superPassword),
\* with the key id that getUserById, updateUser and deleteUser look records up by
User(name, email, password, cpf, userType, userCode, number, superPassword, id) ==
    [name |-> name, email |-> email, password |-> password, cpf |-> cpf,
     userType |-> userType, userCode |-> userCode, number |-> number,
     superPassword |-> superPassword, id |-> id]

\* this.users.find(user => user.id === id): index of the first match, 0 when none
FindUser(us, id) ==
    IF \E i \in 1..Len(us) : us[i].id = id
    THEN CHOOSE i \in 1..Len(us) :
            us[i].id = id /\ \A j \in 1..(i - 1) : us[j].id # id
    ELSE 0

\* Mutant: the sequence number is the count before the push, without the + 1
createUser_NumberOffByOne(us, name, email, password, cpf, userType, superPassword, t, id) ==
    LET v == validateUserData(us, email, password, superPassword, cpf)
        userCode == NatToString(t) \o NatToString(Len(us))
        user == User(name, email, password, cpf, userType, userCode,
                     NatToString(Len(us)), superPassword, id)
    IN  IF v # "ok" THEN [users |-> us, result |-> v, ret |-> <<>>]
        ELSE [users |-> Append(us, user), result |-> "ok", ret |-> <<id>>]

\* Mutant: unshift in place of push, the new record is put first
createUser_Unshift(us, name, email, password, cpf, userType, superPassword, t, id) ==
    LET v == validateUserData(us, email, password, superPassword, cpf)
        userCode == NatToString(t) \o NatToString(Len(us))
        user == User(name, email, password, cpf, userType, userCode,
                     NatToString(Len(us) + 1), superPassword, id)
    IN  IF v # "ok" THEN [users |-> us, result |-> v, ret |-> <<>>]
        ELSE [users |-> <<user>> \o us, result |-> "ok", ret |-> <<id>>]

\* t is the value of Date.now(), id the key of the new record
createUser(us, name, email, password, cpf, userType, superPassword, t, id) ==
    LET v == validateUserData(us, email, password, superPassword, cpf)
        userCode == NatToString(t) \o NatToString(Len(us))
        user == User(name, email, password, cpf, userType, userCode,
                     NatToString(Len(us) + 1), superPassword, id)
    IN  IF v # "ok" THEN [users |-> us, result |-> v, ret |-> <<>>]
        ELSE [users |-> Append(us, user), result |-> "ok", ret |-> <<id>>]

\* The record us[i] after the assignments of updateUser
Assigned(u, name, email, password, cpf, userType, superPassword) ==
    [u EXCEPT !.name = name,
              !.email = email,
              !.password = password,
              !.cpf = cpf,
              !.userType = userType,
              !.superPassword = IF Truthy(superPassword) THEN superPassword ELSE @]

\* Mutant: the record is looked up and assigned before the data is validated
updateUser_WriteFirst(us, id, name, email, password, cpf, userType, superPassword) ==
    LET v == validateUserData(us, email, password, superPassword, cpf)
        i == FindUser(us, id)
        written == [us EXCEPT ![i] = Assigned(@, name, email, password, cpf, userType,
                                              superPassword)]
    IN  IF i = 0 THEN [users |-> us, result |-> "User not found", ret |-> <<>>]
        ELSE IF v # "ok" THEN [users |-> written, result |-> v, ret |-> <<>>]
        ELSE [users |-> written, result |-> "ok", ret |-> <<id>>]

\* Mutant: a missing record is not reported
updateUser_NoThrowOnMissing(us, id, name, email, password, cpf, userType, superPassword) ==
    LET v == validateUserData(us, email, password, superPassword, cpf)
        i == FindUser(us, id)
    IN  IF v # "ok" THEN [users |-> us, result |-> v, ret |-> <<>>]
        ELSE IF i = 0 THEN [users |-> us, result |-> "ok", ret |-> <<>>]
        ELSE [users |-> [us EXCEPT ![i] = Assigned(@, name, email, password, cpf, userType,
                                                   superPassword)],
              result |-> "ok",
              ret |-> <<id>>]

\* Mutant: the sequence number is recomputed from the record's position
updateUser_Renumber(us, id, name, email, password, cpf, userType, superPassword) ==
    LET v == validateUserData(us, email, password, superPassword, cpf)
        i == FindUser(us, id)
    IN  IF v # "ok" THEN [users |-> us, result |-> v, ret |-> <<>>]
        ELSE IF i = 0 THEN [users |-> us, result |-> "User not found", ret |-> <<>>]
        ELSE [users |-> [us EXCEPT ![i] =
                            [Assigned(@, name, email, password, cpf, userType,
                                      superPassword) EXCEPT !.number = NatToString(i)]],
              result |-> "ok",
              ret |-> <<id>>]

\* Mutant: superPassword is assigned even when it is undefined or empty
updateUser_AlwaysSetsSuper(us, id, name, email, password, cpf, userType, superPassword) ==
    LET v == validateUserData(us, email, password, superPassword, cpf)
        i == FindUser(us, id)
    IN  IF v # "ok" THEN [users |-> us, result |-> v, ret |-> <<>>]
        ELSE IF i = 0 THEN [users |-> us, result |-> "User not found", ret |-> <<>>]
        ELSE [users |-> [us EXCEPT ![i] =
                            [Assigned(@, name, email, password, cpf, userType,
                                      superPassword) EXCEPT !.superPassword = superPassword]],
              result |-> "ok",
              ret |-> <<id>>]

\* Mutant: the in-use checks leave out the record that is being updated
updateUser_ExcludesSelf(us, id, name, email, password, cpf, userType, superPassword) ==
    LET Other(u) == u.id # id
        v == validateUserData(SelectSeq(us, Other), email, password, superPassword, cpf)
        i == FindUser(us, id)
    IN  IF v # "ok" THEN [users |-> us, result |-> v, ret |-> <<>>]
        ELSE IF i = 0 THEN [users |-> us, result |-> "User not found", ret |-> <<>>]
        ELSE [users |-> [us EXCEPT ![i] = Assigned(@, name, email, password, cpf, userType,
                                                   superPassword)],
              result |-> "ok",
              ret |-> <<id>>]

\* Mutant: the assignment user.email = email is missing
updateUser_KeepsEmail(us, id, name, email, password, cpf, userType, superPassword) ==
    LET v == validateUserData(us, email, password, superPassword, cpf)
        i == FindUser(us, id)
    IN  IF v # "ok" THEN [users |-> us, result |-> v, ret |-> <<>>]
        ELSE IF i = 0 THEN [users |-> us, result |-> "User not found", ret |-> <<>>]
        ELSE [users |-> [us EXCEPT ![i] =
                            [Assigned(@, name, email, password, cpf, userType,
                                      superPassword) EXCEPT !.email = us[i].email]],
              result |-> "ok",
              ret |-> <<id>>]

updateUser(us, id, name, email, password, cpf, userType, superPassword) ==
    LET v == validateUserData(us, email, password, superPassword, cpf)
        i == FindUser(us, id)
    IN  IF v # "ok" THEN [users |-> us, result |-> v, ret |-> <<>>]
        ELSE IF i = 0 THEN [users |-> us, result |-> "User not found", ret |-> <<>>]
        ELSE [users |-> [us EXCEPT ![i] = Assigned(@, name, email, password, cpf, userType,
                                                   superPassword)],
              result |-> "ok",
              ret |-> <<id>>]

\* Mutant: splice(findIndex(...), 1), which removes the last record when none matches
deleteUser_SpliceAtFindIndex(us, id) ==
    LET i == FindUser(us, id)
        at == IF i = 0 THEN Len(us) ELSE i
    IN  IF Len(us) = 0 THEN us
        ELSE SubSeq(us, 1, at - 1) \o SubSeq(us, at + 1, Len(us))

deleteUser(us, id) ==
    LET Keep(u) == u.id # id
    IN  SelectSeq(us, Keep)

getUserById(us, id) ==
    LET i == FindUser(us, id)
    IN  IF i = 0 THEN [result |-> "User not found", ret |-> <<>>]
        ELSE [result |-> "ok", ret |-> <<us[i].id>>]

listUsers(us) == [i \in 1..Len(us) |-> us[i].id]

-----------------------------------------------------------------------------
(* State machine: one call at a time, each running to completion *)

Init ==
    /\ users = <<>>
    /\ now = 1
    /\ op = "idle"
    /\ args = NoArgs
    /\ result = "ok"
    /\ ret = <<>>

FreeIds(us) == { id \in Ids : \A i \in 1..Len(us) : us[i].id # id }

\* The keys a record created by the call can get: a call that validateUserData
\* refuses constructs no record, gets no key and does not read the clock
NewIds(us, v) == IF v = "ok" THEN FreeIds(us) ELSE {NoId}

CreateUserWith(P, E, C, S) ==
    /\ op = "idle"
    /\ \E p \in P, email \in E, cpf \in C, superPassword \in S :
       \E id \in NewIds(users, validateUserData(users, email, p.password, superPassword, cpf)) :
       \E t \in IF id = NoId THEN {now} ELSE now..MaxNow :
        LET r == createUser(users, p.name, email, p.password, cpf, p.userType,
                            superPassword, t, id)
        IN  /\ users' = r.users
            /\ result' = r.result
            /\ ret' = r.ret
            /\ now' = IF r.result = "ok" THEN t ELSE now
            /\ op' = "create"
            /\ args' = [id |-> NoId, name |-> p.name, email |-> email,
                        password |-> p.password, cpf |-> cpf, userType |-> p.userType,
                        superPassword |-> superPassword]

UpdateUserWith(P, E, C, S) ==
    /\ op = "idle"
    /\ \E id \in Ids \cup {NoId}, p \in P, email \in E, cpf \in C, superPassword \in S :
        LET r == updateUser(users, id, p.name, email, p.password, cpf, p.userType,
                            superPassword)
        IN  /\ users' = r.users
            /\ result' = r.result
            /\ ret' = r.ret
            /\ op' = "update"
            /\ args' = [id |-> id, name |-> p.name, email |-> email,
                        password |-> p.password, cpf |-> cpf, userType |-> p.userType,
                        superPassword |-> superPassword]
            /\ UNCHANGED now

CreateUser == CreateUserWith(Profiles, Emails, Cpfs, SuperPasswords)

UpdateUser == UpdateUserWith(Profiles, Emails, Cpfs, SuperPasswords)

FrameCreateUser == CreateUserWith(FrameProfiles, FrameEmails, FrameCpfs, FrameSuperPasswords)

FrameUpdateUser == UpdateUserWith(FrameProfiles, FrameEmails, FrameCpfs, FrameSuperPasswords)

DeleteUser ==
    /\ op = "idle"
    /\ \E id \in Ids \cup {NoId} :
        /\ users' = deleteUser(users, id)
        /\ result' = "ok"
        /\ ret' = <<>>
        /\ op' = "delete"
        /\ args' = [NoArgs EXCEPT !.id = id]
        /\ UNCHANGED now

GetUserById ==
    /\ op = "idle"
    /\ \E id \in Ids \cup {NoId} :
        LET r == getUserById(users, id)
        IN  /\ result' = r.result
            /\ ret' = r.ret
            /\ op' = "get"
            /\ args' = [NoArgs EXCEPT !.id = id]
            /\ UNCHANGED <<users, now>>

ListUsers ==
    /\ op = "idle"
    /\ result' = "ok"
    /\ ret' = listUsers(users)
    /\ op' = "list"
    /\ args' = NoArgs
    /\ UNCHANGED <<users, now>>

\* A validator applied on its own to one input; result is "true" or "false"
IsValidCpfDigits ==
    /\ op = "idle"
    /\ \E cpf \in CpfInputs :
        /\ result' = IF isValidCpfDigits(cpf) THEN "true" ELSE "false"
        /\ op' = "isValidCpfDigits"
        /\ args' = [NoArgs EXCEPT !.cpf = cpf]
        /\ ret' = <<>>
        /\ UNCHANGED <<users, now>>

IsValidPassword ==
    /\ op = "idle"
    /\ \E password \in PasswordInputs :
        /\ result' = IF isValidPassword(password) THEN "true" ELSE "false"
        /\ op' = "isValidPassword"
        /\ args' = [NoArgs EXCEPT !.password = password]
        /\ ret' = <<>>
        /\ UNCHANGED <<users, now>>

ValidatorCreateUser ==
    CreateUserWith(ValidatorProfiles, ValidatorEmails, ValidatorCpfs, ValidatorSuperPasswords)

\* The caller takes the result of the completed call; the next call may start
Return ==
    /\ op # "idle"
    /\ op' = "idle"
    /\ args' = NoArgs
    /\ result' = "ok"
    /\ ret' = <<>>
    /\ UNCHANGED <<users, now>>

Next ==
    \/ CreateUser
    \/ UpdateUser
    \/ DeleteUser
    \/ GetUserById
    \/ ListUsers
    \/ Return

Spec == Init /\ [][Next]_vars

FrameNext ==
    \/ FrameCreateUser
    \/ FrameUpdateUser
    \/ DeleteUser
    \/ GetUserById
    \/ ListUsers
    \/ Return

SpecFrame == Init /\ [][FrameNext]_vars

ValidatorNext ==
    \/ ValidatorCreateUser
    \/ IsValidCpfDigits
    \/ IsValidPassword
    \/ DeleteUser
    \/ Return

SpecValidator == Init /\ [][ValidatorNext]_vars

-----------------------------------------------------------------------------
(* Properties *)

\* Index of the live record with key id, 0 when there is none
IndexOf(us, id) ==
    IF \E i \in 1..Len(us) : us[i].id = id
    THEN CHOOSE i \in 1..Len(us) : us[i].id = id
    ELSE 0

CallIsWrite(o) == o \in {"create", "update"}

\* A secondary password was supplied and is not empty
Supplied(superPassword) == superPassword # Undefined /\ Len(superPassword) > 0

\* C1: in every reachable state no two distinct live records have the same email.
EmailsUnique ==
    \A i, j \in 1..Len(users) : i # j => users[i].email # users[j].email

\* C1 witness: two records are live and an update asking for the other record's
\* email has just been refused.
EmailsUniqueWitness ==
    /\ Len(users) = 2
    /\ op = "update"
    /\ result = "Email already in use"
    /\ \E i, j \in 1..Len(users) :
          i # j /\ users[i].id = args.id /\ users[j].email = args.email

\* C2: in every reachable state no two distinct live records have the same cpf.
CpfsUnique ==
    \A i, j \in 1..Len(users) : i # j => users[i].cpf # users[j].cpf

\* C2 witness: two records are live and an update asking for a fresh email but
\* the other record's cpf has just been refused.
CpfsUniqueWitness ==
    /\ Len(users) = 2
    /\ op = "update"
    /\ result = "CPF already in use"
    /\ \E i, j \in 1..Len(users) :
          i # j /\ users[i].id = args.id /\ users[j].cpf = args.cpf

\* C3: a createUser or updateUser call that throws leaves this.users as it was:
\* same records, same order, every field unchanged.
ErrorLeavesUsersUnchanged ==
    [][(CallIsWrite(op') /\ result' # "ok") => users' = users]_vars

\* C3 witness: an update of a live record has failed while two records are live.
ErrorLeavesUsersUnchangedWitness ==
    /\ op = "update"
    /\ result \notin {"ok", "User not found"}
    /\ Len(users) = 2
    /\ IndexOf(users, args.id) # 0

\* The gate's checks on the arguments a against the records us, in the order of
\* the claim, each with whether it fails and the message it reports
GateChecks(us, a) ==
    << [fails |-> ~isValidEmail(a.email), msg |-> "Invalid email"],
       [fails |-> ~isValidPassword(a.password), msg |-> "Invalid password"],
       [fails |-> Supplied(a.superPassword) /\ ~isValidPassword(a.superPassword),
        msg |-> "Invalid super password"],
       [fails |-> \E i \in 1..Len(us) : us[i].email = a.email,
        msg |-> "Email already in use"],
       [fails |-> \E i \in 1..Len(us) : us[i].cpf = a.cpf,
        msg |-> "CPF already in use"],
       [fails |-> ~(isValidCpfFormat(a.cpf) /\ isValidCpfDigits(a.cpf)), msg |-> "Invalid CPF"] >>

GatePasses(us, a) ==
    LET checks == GateChecks(us, a)
    IN  \A k \in 1..6 : ~checks[k].fails

\* The message of the earliest failing check
EarliestFailure(us, a) ==
    LET checks == GateChecks(us, a)
        k == CHOOSE n \in 1..6 : checks[n].fails /\ \A m \in 1..(n - 1) : ~checks[m].fails
    IN  checks[k].msg

\* C4: when an input of createUser or updateUser fails one or more checks of the
\* gate, the error reported is that of the earliest failing check in the order
\* email shape, password, secondary password, email in use, cpf in use, cpf validity.
GateReportsEarliestFailure ==
    [][(CallIsWrite(op') /\ ~GatePasses(users, args'))
          => result' = EarliestFailure(users, args')]_vars

\* C4 witness: a call whose email is in use and whose cpf is malformed has
\* reported Email already in use.
GateReportsEarliestFailureWitness ==
    /\ CallIsWrite(op)
    /\ result = "Email already in use"
    /\ ~(isValidCpfFormat(args.cpf) /\ isValidCpfDigits(args.cpf))

\* C5 as stated: updateUser with an id of no live record fails with User not found
\* whatever the other arguments are.
UnknownIdAlwaysNotFound ==
    (op = "update" /\ IndexOf(users, args.id) = 0) => result = "User not found"

\* C5 amended: updateUser with an id of no live record always fails; the error is
\* User not found exactly when the other arguments pass every check of the gate,
\* and the gate's error otherwise.
UnknownIdFails ==
    (op = "update" /\ IndexOf(users, args.id) = 0)
        => /\ result # "ok"
           /\ (result = "User not found") <=> GatePasses(users, args)

\* C5 witness: an update with valid arguments and an id of no live record has
\* failed with User not found while a record is live.
UnknownIdFailsWitness ==
    /\ op = "update"
    /\ Len(users) > 0
    /\ IndexOf(users, args.id) = 0
    /\ GatePasses(users, args)
    /\ result = "User not found"

\* The fields the gate checks are valid and neither key is held by a record of us
FieldsValidAndFree(us, a) ==
    /\ isValidEmail(a.email)
    /\ isValidPassword(a.password)
    /\ isValidCpfFormat(a.cpf) /\ isValidCpfDigits(a.cpf)
    /\ \A i \in 1..Len(us) : us[i].email # a.email /\ us[i].cpf # a.cpf

\* The step is a createUser call that succeeded: one record appended, returned,
\* with a non-empty code and the count before the call plus one as its number
CreateSucceeded ==
    /\ result' = "ok"
    /\ Len(users') = Len(users) + 1
    /\ SubSeq(users', 1, Len(users)) = users
    /\ ret' = <<users'[Len(users')].id>>
    /\ Len(users'[Len(users')].userCode) > 0
    /\ users'[Len(users')].number = NatToString(Len(users) + 1)

\* C6 as stated: createUser with a well-formed email, a complexity-passing
\* password and a valid tax-id, neither key in use, succeeds, appends one record
\* and returns it with a non-empty code and number = count before + 1.
CreateWithValidFieldsSucceeds ==
    [][(op' = "create" /\ FieldsValidAndFree(users, args')) => CreateSucceeded]_vars

\* C6 amended: the same, for inputs whose secondary password is omitted, empty
\* or complexity-passing.
CreateWithValidInputSucceeds ==
    [][(/\ op' = "create"
        /\ FieldsValidAndFree(users, args')
        /\ Supplied(args'.superPassword) => isValidPassword(args'.superPassword))
          => CreateSucceeded]_vars

\* C6 witness: a second record has been created while the first was live.
CreateWithValidInputSucceedsWitness ==
    /\ op = "create"
    /\ result = "ok"
    /\ Len(users) = 2
    /\ users[2].number = <<"2">>

\* C7: no step changes the code or the sequence number of a record that is live
\* before and after it.
CodeAndNumberFixed ==
    [][\A i \in 1..Len(users), j \in 1..Len(users') :
          users[i].id = users'[j].id
              => /\ users'[j].userCode = users[i].userCode
                 /\ users'[j].number = users[i].number]_vars

\* C7 witness: a record created second, now first in the array, has just been
\* updated and still carries the number 2.
CodeAndNumberFixedWitness ==
    /\ op = "update"
    /\ result = "ok"
    /\ users[1].id = args.id
    /\ users[1].email = args.email
    /\ users[1].number = <<"2">>

\* The tax-id pattern DDD.DDD.DDD-DD and the two check digits, written out
CpfDigitAt(c, n) == DigitValue(c[<<1, 2, 3, 5, 6, 7, 9, 10, 11, 13, 14>>[n]])

RECURSIVE CpfSum(_, _, _)
CpfSum(c, n, top) ==
    IF n = 0 THEN 0 ELSE CpfDigitAt(c, n) * (top - n) + CpfSum(c, n - 1, top)

CpfCheckDigit(sum) == IF (sum * 10) % 11 = 10 THEN 0 ELSE (sum * 10) % 11

CpfWellFormed(c) ==
    /\ Len(c) = 14
    /\ c[4] = "." /\ c[8] = "." /\ c[12] = "-"
    /\ \A i \in (1..14) \ {4, 8, 12} : c[i] \in Digits
    /\ \E n \in 2..11 : CpfDigitAt(c, n) # CpfDigitAt(c, 1)
    /\ CpfDigitAt(c, 10) = CpfCheckDigit(CpfSum(c, 9, 11))
    /\ CpfDigitAt(c, 11) = CpfCheckDigit(CpfSum(c, 10, 12))

WellFormedCpf == [c \in Cpfs |-> CpfWellFormed(c)]

\* C8: in every reachable state the tax-id of every live record matches
\* DDD.DDD.DDD-DD, is not eleven identical digits, and has both check digits right.
StoredCpfsWellFormed ==
    \A i \in 1..Len(users) : WellFormedCpf[users[i].cpf]

\* C8 witness: a successful update has just replaced the tax-id of a record.
StoredCpfsWellFormedWitness ==
    /\ op = "update"
    /\ result = "ok"
    /\ \E i \in 1..Len(users) : users[i].id = args.id /\ users[i].cpf = args.cpf
    /\ WellFormedCpf[args.cpf]

\* C9 as stated: the password of every live record, and the secondary password of
\* every live record that stores one (the empty string included), satisfy the
\* complexity policy.
StoredPasswordsComplex ==
    \A i \in 1..Len(users) :
        /\ isValidPassword(users[i].password)
        /\ users[i].superPassword # Undefined => isValidPassword(users[i].superPassword)

\* C10: a successful updateUser overwrites name, email, password, cpf and userType
\* of the record with the given id, keeps its secondary password when none (or an
\* empty one) is supplied and replaces it otherwise, and changes no other record.
UpdateOverwritesTarget ==
    [][(op' = "update" /\ result' = "ok") =>
          LET a == args'
              i == IndexOf(users, a.id)
          IN  /\ i # 0
              /\ Len(users') = Len(users)
              /\ users'[i].name = a.name
              /\ users'[i].email = a.email
              /\ users'[i].password = a.password
              /\ users'[i].cpf = a.cpf
              /\ users'[i].userType = a.userType
              /\ users'[i].superPassword =
                    IF Supplied(a.superPassword) THEN a.superPassword
                    ELSE users[i].superPassword
              /\ users'[i].id = users[i].id
              /\ \A j \in 1..Len(users) : j # i => users'[j] = users[j]]_vars

\* C10 witness: with two records live, an update without a secondary password
\* has changed name and password of a record and kept its secondary password.
UpdateOverwritesTargetWitness ==
    /\ op = "update"
    /\ result = "ok"
    /\ Len(users) = 2
    /\ args.superPassword = Undefined
    /\ \E i \in 1..Len(users) :
          /\ users[i].id = args.id
          /\ users[i].name = "Bia"
          /\ users[i].superPassword = SuperPassword1

\* The passwords of the call pass the gate: the password is complexity-passing and
\* the secondary password is omitted, empty or complexity-passing
PasswordsPass(a) ==
    /\ isValidPassword(a.password)
    /\ Supplied(a.superPassword) => isValidPassword(a.superPassword)

\* The email is well-formed and held by no record of us
FreshValidEmail(us, email) ==
    /\ isValidEmail(email)
    /\ \A i \in 1..Len(us) : us[i].email # email

\* Every successful updateUser leaves its target with an email and a tax-id that
\* both differ from the ones it held before the call
SuccessfulUpdateChangesKeys ==
    (op' = "update" /\ result' = "ok") =>
        LET i == IndexOf(users, args'.id)
        IN  /\ i # 0
            /\ users'[i].email # users[i].email
            /\ users'[i].cpf # users[i].cpf

\* C11 as stated: updateUser on a live record that resubmits the record's own
\* email fails with Email already in use, one that supplies a fresh valid email but
\* the record's own tax-id fails with CPF already in use, and every successful
\* updateUser leaves its target with a different email and a different tax-id.
SelfResubmitReportsInUse ==
    [][/\ \A i \in 1..Len(users) :
              (op' = "update" /\ users[i].id = args'.id) =>
                  /\ args'.email = users[i].email => result' = "Email already in use"
                  /\ (FreshValidEmail(users, args'.email) /\ args'.cpf = users[i].cpf)
                        => result' = "CPF already in use"
       /\ SuccessfulUpdateChangesKeys]_vars

\* C11 amended: the same, for calls whose password is complexity-passing and whose
\* secondary password is omitted, empty or complexity-passing; whatever the
\* passwords are, a call that resubmits the record's own email or tax-id fails.
SelfResubmitFails ==
    [][/\ \A i \in 1..Len(users) :
              (op' = "update" /\ users[i].id = args'.id) =>
                  /\ (args'.email = users[i].email \/ args'.cpf = users[i].cpf)
                        => result' # "ok"
                  /\ (PasswordsPass(args') /\ args'.email = users[i].email)
                        => result' = "Email already in use"
                  /\ (/\ PasswordsPass(args')
                      /\ FreshValidEmail(users, args'.email)
                      /\ args'.cpf = users[i].cpf)
                        => result' = "CPF already in use"
       /\ SuccessfulUpdateChangesKeys]_vars

\* C11 witness: with two records live, an update of a record with a fresh valid
\* email and the record's own tax-id has been refused with CPF already in use.
SelfResubmitFailsWitness ==
    /\ op = "update"
    /\ result = "CPF already in use"
    /\ Len(users) = 2
    /\ \A j \in 1..Len(users) : users[j].email # args.email
    /\ \E i \in 1..Len(users) : users[i].id = args.id /\ users[i].cpf = args.cpf

\* The step is a createUser call whose email is well-formed and held by a live
\* record, whose password is complexity-passing and whose tax-id is valid and fresh
CreateReusesEmail ==
    /\ op' = "create"
    /\ isValidEmail(args'.email)
    /\ \E i \in 1..Len(users) : users[i].email = args'.email
    /\ isValidPassword(args'.password)
    /\ isValidCpfFormat(args'.cpf) /\ isValidCpfDigits(args'.cpf)
    /\ \A i \in 1..Len(users) : users[i].cpf # args'.cpf

\* C12 as stated: createUser with a well-formed email that a live record holds, a
\* complexity-passing password and a fresh valid tax-id fails with Email already
\* in use and the number of records is unchanged.
DuplicateEmailCreateReportsInUse ==
    [][CreateReusesEmail
          => (result' = "Email already in use" /\ Len(users') = Len(users))]_vars

\* C12 amended: such a call never succeeds and leaves the number of records
\* unchanged; it fails with Email already in use when its secondary password is
\* omitted, empty or complexity-passing.
DuplicateEmailCreateFails ==
    [][CreateReusesEmail
          => /\ result' # "ok"
             /\ Len(users') = Len(users)
             /\ (Supplied(args'.superPassword) => isValidPassword(args'.superPassword))
                   => result' = "Email already in use"]_vars

\* C12 witness: after one successful create, a second create reusing its email with
\* a fresh valid tax-id has been refused and the length is still 1.
DuplicateEmailCreateFailsWitness ==
    /\ op = "create"
    /\ result = "Email already in use"
    /\ Len(users) = 1
    /\ users[1].email = args.email
    /\ users[1].cpf # args.cpf
    /\ isValidCpfFormat(args.cpf) /\ isValidCpfDigits(args.cpf)

\* C13: deleteUser never throws; with an id of no live record it leaves this.users
\* unchanged; and deleting the same id again changes nothing more, so deleting
\* twice gives what deleting once gives.
DeleteIdempotent ==
    [][op' = "delete" =>
          /\ result' = "ok"
          /\ IndexOf(users, args'.id) = 0 => users' = users
          /\ IndexOf(users', args'.id) = 0
          /\ deleteUser(users', args'.id) = users']_vars

\* C13 witness: a delete with an id of no live record has returned while two
\* records are live.
DeleteIdempotentWitness ==
    /\ op = "delete"
    /\ result = "ok"
    /\ Len(users) = 2
    /\ IndexOf(users, args.id) = 0

\* The step is a createUser call with a well-formed email, a complexity-passing
\* password and no conflict: neither its email nor its tax-id is held by a record
CreateWithoutConflict ==
    /\ op' = "create"
    /\ isValidEmail(args'.email)
    /\ isValidPassword(args'.password)
    /\ \A i \in 1..Len(users) : users[i].email # args'.email /\ users[i].cpf # args'.cpf

\* C14 as stated: createUser with a well-formed email, a complexity-passing
\* password, no conflicts and the tax-id 123.456.789-09 fails with Invalid CPF.
ExampleCpfRefused ==
    [][(CreateWithoutConflict /\ args'.cpf = Cpf2) => result' = "Invalid CPF"]_vars

\* C14 amended: with a secondary password that is omitted, empty or
\* complexity-passing, such a call with the tax-id 123.456.789-09 succeeds and
\* stores that tax-id, and one with the tax-id 111.444.777-36, which is structurally
\* valid but has a wrong check digit, fails with Invalid CPF.
ExampleCpfAccepted ==
    [][(CreateWithoutConflict /\ PasswordsPass(args')) =>
          /\ args'.cpf = Cpf2 =>
                /\ result' = "ok"
                /\ Len(users') = Len(users) + 1
                /\ users'[Len(users')].cpf = Cpf2
          /\ args'.cpf = CpfBadChecksum =>
                /\ result' = "Invalid CPF"
                /\ users' = users]_vars

\* C14 witness: a second record has been created with the tax-id 123.456.789-09.
ExampleCpfAcceptedWitness ==
    /\ op = "create"
    /\ result = "ok"
    /\ args.cpf = Cpf2
    /\ Len(users) = 2
    /\ users[2].cpf = Cpf2

\* Each of the ten tax-ids of identical digits has the pattern DDD.DDD.DDD-DD and
\* satisfies the two check-digit equations
AllSameSatisfyEquations ==
    \A c \in CpfsAllSame :
        /\ Len(c) = 14 /\ c[4] = "." /\ c[8] = "." /\ c[12] = "-"
        /\ \A n \in 1..11 : CpfDigitAt(c, n) = CpfDigitAt(c, 1)
        /\ CpfDigitAt(c, 10) = CpfCheckDigit(CpfSum(c, 9, 11))
        /\ CpfDigitAt(c, 11) = CpfCheckDigit(CpfSum(c, 10, 12))

\* C15 as stated: createUser with a well-formed email, a complexity-passing
\* password, no conflicts and a formatted tax-id of eleven identical digits fails
\* with Invalid CPF, although those digits satisfy the two check-digit equations.
AllSameCpfReportsInvalid ==
    [][(CreateWithoutConflict /\ args'.cpf \in CpfsAllSame)
          => (result' = "Invalid CPF" /\ AllSameSatisfyEquations)]_vars

\* C15 amended: such a call never succeeds and leaves this.users unchanged; it
\* fails with Invalid CPF when its secondary password is omitted, empty or
\* complexity-passing.
AllSameCpfRefused ==
    [][(CreateWithoutConflict /\ args'.cpf \in CpfsAllSame)
          => /\ result' # "ok"
             /\ users' = users
             /\ PasswordsPass(args') => result' = "Invalid CPF"
             /\ AllSameSatisfyEquations]_vars

\* C15 witness: with a record live, a create with another email and the tax-id
\* 000.000.000-00 has been refused with Invalid CPF.
AllSameCpfRefusedWitness ==
    /\ op = "create"
    /\ result = "Invalid CPF"
    /\ args.cpf = FormatCpf([i \in 1..11 |-> "0"])
    /\ Len(users) = 1
    /\ users[1].email # args.email

\* The keys of the records of us, in array order
KeysOf(us) == [i \in 1..Len(us) |-> us[i].id]

\* s without its n-th element
Without(s, n) == SubSeq(s, 1, n - 1) \o SubSeq(s, n + 1, Len(s))

RECURSIVE DigitsIn(_)
DigitsIn(s) ==
    IF s = <<>> THEN <<>>
    ELSE (IF Head(s) \in Digits THEN <<DigitValue(Head(s))>> ELSE <<>>) \o DigitsIn(Tail(s))

FirstCheckSum(d) ==
    d[1] * 10 + d[2] * 9 + d[3] * 8 + d[4] * 7 + d[5] * 6 + d[6] * 5 + d[7] * 4
        + d[8] * 3 + d[9] * 2

SecondCheckSum(d) ==
    d[1] * 11 + d[2] * 10 + d[3] * 9 + d[4] * 8 + d[5] * 7 + d[6] * 6 + d[7] * 5
        + d[8] * 4 + d[9] * 3 + d[10] * 2

\* s has eleven digits that are not all identical and whose tenth and eleventh are
\* the two check digits of the ones before them
ChecksumHolds(s) ==
    LET d == DigitsIn(s)
    IN  /\ Len(d) = 11
        /\ \E n \in 2..11 : d[n] # d[1]
        /\ d[10] = CpfCheckDigit(FirstCheckSum(d))
        /\ d[11] = CpfCheckDigit(SecondCheckSum(d))

ChecksumHoldsOf == [s \in CpfInputs |-> ChecksumHolds(s)]

\* C17: isValidCpfDigits accepts a string exactly when its digits are eleven, not
\* all identical, the tenth equal to (sum of d_i * (11 - i), i = 1..9) * 10 mod 11
\* and the eleventh to (sum of d_i * (12 - i), i = 1..10) * 10 mod 11, each with
\* 10 turned into 0; 111.444.777-35 is accepted.
ChecksumAcceptsExactly ==
    op = "isValidCpfDigits" =>
        /\ (result = "true") <=> ChecksumHoldsOf[args.cpf]
        /\ args.cpf = Cpf1 => result = "true"

\* C17 witness: 987.654.321-00, whose second check digit is a remainder of 10
\* turned into 0, has been accepted.
ChecksumAcceptsExactlyWitness ==
    /\ op = "isValidCpfDigits"
    /\ result = "true"
    /\ args.cpf = <<"9", "8", "7", ".", "6", "5", "4", ".", "3", "2", "1", "-", "0", "0">>

\* s is at least eight characters of [A-Za-z0-9@$!%*?&] with a lowercase letter,
\* an uppercase letter, a digit and a symbol among them
MeetsPasswordPolicy(s) ==
    LET chars == { s[i] : i \in 1..Len(s) }
    IN  /\ Len(s) >= 8
        /\ chars \cap Lower # {}
        /\ chars \cap Upper # {}
        /\ chars \cap Digits # {}
        /\ chars \cap PasswordSymbols # {}
        /\ chars \subseteq (Lower \cup Upper \cup Digits \cup PasswordSymbols)

MeetsPasswordPolicyOf == [s \in PasswordInputs |-> MeetsPasswordPolicy(s)]

\* C18: createUser with a well-formed email and a password that is shorter than
\* 8, or lacks a lowercase letter, an uppercase letter, a digit or a symbol of
\* @$!%*?&, or has a character outside [A-Za-z0-9@$!%*?&], fails with Invalid
\* password; a password with none of these defects passes the password check.
PasswordPolicyEnforced ==
    /\ (op = "create" /\ isValidEmail(args.email)) =>
           (result = "Invalid password") <=> ~MeetsPasswordPolicyOf[args.password]
    /\ op = "isValidPassword" =>
           (result = "true") <=> MeetsPasswordPolicyOf[args.password]

\* C18 witness: with a record live, a create with a well-formed email and a
\* password that has every kind of character but also a # has failed with
\* Invalid password.
PasswordPolicyEnforcedWitness ==
    /\ op = "create"
    /\ result = "Invalid password"
    /\ args.password = PasswordHash
    /\ isValidEmail(args.email)
    /\ Len(users) = 1

\* C19 as stated: in every reachable state the sequence numbers of the live
\* records are pairwise distinct, also when records were created after earlier
\* ones were deleted.
SequenceNumbersDistinct ==
    \A i, j \in 1..Len(users) : i # j => users[i].number # users[j].number

\* A createUser call with the keys email and cpf and otherwise valid input, made
\* on the records us, succeeds and stores a record holding the two keys
Reusable(us, email, cpf) ==
    \A p \in FrameProfiles, superPassword \in FrameSuperPasswords :
        LET r == createUser(us, p.name, email, p.password, cpf, p.userType,
                            superPassword, now, NoId)
        IN  /\ r.result = "ok"
            /\ Len(r.users) = Len(us) + 1
            /\ r.users[Len(r.users)].email = email
            /\ r.users[Len(r.users)].cpf = cpf

\* C20: uniqueness is checked against the live records only. Once deleteUser has
\* removed a record, or a successful updateUser has replaced a record's email and
\* tax-id, no live record holds the email or the tax-id the record had and a
\* createUser call using them with otherwise valid input succeeds; and createUser
\* reports Email already in use or CPF already in use only for a key that a live
\* record holds.
FreedKeysReusable ==
    [][/\ (op' = "delete" \/ (op' = "update" /\ result' = "ok")) =>
              \A i \in 1..Len(users) :
                  users[i].id = args'.id =>
                      /\ \A j \in 1..Len(users') :
                            /\ users'[j].email # users[i].email
                            /\ users'[j].cpf # users[i].cpf
                      /\ Reusable(users', users[i].email, users[i].cpf)
       /\ (op' = "create" /\ result' = "Email already in use") =>
              \E i \in 1..Len(users) : users[i].email = args'.email
       /\ (op' = "create" /\ result' = "CPF already in use") =>
              \E i \in 1..Len(users) : users[i].cpf = args'.cpf]_vars

\* C20 witness: the record created first is gone, and a create with the email
\* a@b.c and the tax-id 111.444.777-35 has succeeded beside the record created
\* second, which now holds other keys.
FreedKeysReusableWitness ==
    /\ op = "create"
    /\ result = "ok"
    /\ Len(users) = 2
    /\ users[1].number = <<"2">>
    /\ users[2].email = Email1
    /\ users[2].cpf = Cpf1
    /\ users[2].userCode = <<"1", "1">>

====
